---------------------------- MODULE Spec2Model ----------------------------
(***************************************************************************)
(* A state-machine model of the drawing surface of simply-draw (App.tsx,   *)
(* the version with the pen and eraser tools).                             *)
(*                                                                         *)
(* React semantics used throughout: an event handler or timer callback is  *)
(* a closure over the state of the render that created it.  It reads that  *)
(* state (the record c below) and queues updates (the record u below);     *)
(* a plain setX(v) overwrites the queued value, a functional setX(f)       *)
(* applies f to the queued value.  When the handler returns the queue is   *)
(* committed, the component re-renders and the effects whose dependencies  *)
(* changed run (redraw, blink interval, inactivity timeout).  One action   *)
(* of the model is one handler together with that commit.                  *)
(***************************************************************************)
EXTENDS Integers, Sequences, FiniteSets

VARIABLES
    isDrawing,        \* useState<boolean>(false)
    isTyping,         \* useState<boolean>(false)
    activeTextId,     \* useState<string | null>(null); NoId models null
    textElements,     \* useState<TextElement[]>([])      (the Text Store)
    drawingActions,   \* useState<DrawingAction[]>([])    (the Stroke Store)
    lastPoint,        \* useState<Point | null>(null); NoPoint models null
    currentPath,      \* useState<Point[]>([])            (the in-progress stroke)
    mouseDownTime,    \* useState<number>(0)
    mouseIsDown,      \* useState<boolean>(false)
    initialClickPos,  \* useState<Point | null>(null)
    activeTool,       \* useState<ToolType>('pen')
    now,              \* the wall clock, Date.now()
    inactivityTimer,  \* the pending setTimeout: when it was armed, or NoTimer
    blinkTimer,       \* the setInterval: when it was set or last fired, and its closure
    canvas,           \* what the last redrawCanvas painted
    canvasSize,       \* canvas.width and canvas.height
    gesture,          \* history: the pointer gesture in progress
    session,          \* history: the keys sent to the label created last
    ticks,            \* history: how often the clock advanced
    erase             \* history: the eraser application that led to this state

vars == <<isDrawing, isTyping, activeTextId, textElements, drawingActions, lastPoint,
          currentPath, mouseDownTime, mouseIsDown, initialClickPos, activeTool, now,
          inactivityTimer, blinkTimer, canvas, canvasSize, gesture, session, ticks,
          erase>>

progVars == <<isDrawing, isTyping, activeTextId, textElements, drawingActions, lastPoint,
              currentPath, mouseDownTime, mouseIsDown, initialClickPos, activeTool>>

-----------------------------------------------------------------------------
(* Program constants *)

dragThreshold == 5

eraserSize == 20

ShortClickMs == 200

InactivityMs == 3000

BlinkMs == 500

LineOffset == 24

HitBand == 16

-----------------------------------------------------------------------------
(* Bounds of the model *)

\* most points in the in-progress stroke
MaxPathLen == 2

\* most points in the Stroke Store that a pen gesture may bring it to
MaxPoints == 2

\* most labels in the Text Store
MaxLabels == 2

\* most characters in a label
MaxContentLen == 1

\* most advances of the clock
MaxTicks == 1

\* most points in a Stroke Store the eraser specification starts from
MaxErasePoints == 5

Pt(x, y) == [x |-> x, y |-> y]

NoPoint == Pt(-1, -1)

\* pointer positions of the pen specification: one line (LineOffset) apart,
\* so beyond the drag threshold of each other
Points == {Pt(10, 10), Pt(10, 34)}

\* pointer positions of the drag specification: two of them exactly 5px apart
\* (3 across, 4 down), so within the drag threshold of each other, and one
\* far from both
DragPoints == {Pt(10, 10), Pt(13, 14), Pt(10, 34)}

\* pointer positions and stroke points of the eraser specification: two
\* within the eraser radius of each other, one far from both
ErasePoints == {Pt(0, 4), Pt(4, 0), Pt(30, 4)}

\* printable keys
Chars == {"a"}

Keys == Chars \cup {"Backspace", "Enter", "Escape", "Shift"}

\* the amounts by which the clock advances between events: less than the
\* short-click limit, and the inactivity delay
TickSteps == {150, 3000}

\* window.innerWidth and window.innerHeight: the size at mount and another
Sizes == {[width |-> 800, height |-> 600], [width |-> 1024, height |-> 768]}

InitialSize == [width |-> 800, height |-> 600]

NoId == <<>>

NoTimer == -1

\* the reading of the clock when the component is mounted: like any reading
\* of Date.now(), more than ShortClickMs after the epoch
StartTime == 5 * ShortClickMs

-----------------------------------------------------------------------------
(* Helpers standing for JavaScript built-ins *)

Digit(d) == <<"0", "1", "2", "3", "4", "5", "6", "7", "8", "9">>[d + 1]

\* Number.prototype.toString: the decimal digits of n
RECURSIVE NumberToString(_)
NumberToString(n) ==
    IF n < 10 THEN <<Digit(n)>> ELSE Append(NumberToString(n \div 10), Digit(n % 10))

Abs(n) == IF n < 0 THEN -n ELSE n

\* context.measureText(content).width, for a font 9px wide
measureText(content) == 9 * Len(content)

\* Array.prototype.findIndex, on the results of the callback for each element:
\* the first index (1-based) where it is true, 0 when there is none
\* (JavaScript's -1)
RECURSIVE FindFrom(_, _)
FindFrom(tests, i) ==
    IF i > Len(tests) THEN 0
    ELSE IF tests[i] THEN i
    ELSE FindFrom(tests, i + 1)

FindIndex(tests) == FindFrom(tests, 1)

\* Array.prototype.splice(i, 1) / filter((_, j) => j !== i), 1-based
RemoveAt(seq, i) == SubSeq(seq, 1, i - 1) \o SubSeq(seq, i + 1, Len(seq))

\* Array.prototype.reverse
Reverse(seq) == [i \in 1..Len(seq) |-> seq[Len(seq) + 1 - i]]

RECURSIVE TotalPoints(_)
TotalPoints(actions) ==
    IF actions = <<>> THEN 0 ELSE Len(Head(actions)) + TotalPoints(Tail(actions))

-----------------------------------------------------------------------------
(* The state a closure reads, and the updates a handler queues *)

\* the state of the current render, as the handlers of that render see it
Closure ==
    [isDrawing |-> isDrawing, isTyping |-> isTyping, activeTextId |-> activeTextId,
     textElements |-> textElements, drawingActions |-> drawingActions,
     lastPoint |-> lastPoint, currentPath |-> currentPath,
     mouseDownTime |-> mouseDownTime, mouseIsDown |-> mouseIsDown,
     initialClickPos |-> initialClickPos, activeTool |-> activeTool,
     touched |-> {}]

\* setX(v): the queued value of field f becomes v; touched records that a new
\* value (for arrays and objects: a new reference) was queued
Set(u, f, v) == [u EXCEPT ![f] = v, !.touched = @ \cup {f}]

\* state holding arrays or objects: every set queues a new reference, so an
\* effect depending on it runs again; for the other fields React compares values
RefFields == {"textElements", "drawingActions", "lastPoint", "currentPath"}

Changed(c, u, f) == IF f \in RefFields THEN f \in u.touched ELSE u[f] # c[f]

-----------------------------------------------------------------------------
(* redrawCanvas and drawPath: what is painted *)

\* drawPath paints nothing for a path of fewer than 2 points
drawPath(path) == IF Len(path) < 2 THEN <<>> ELSE <<path>>

RECURSIVE drawPaths(_)
drawPaths(actions) ==
    IF actions = <<>> THEN <<>> ELSE drawPath(Head(actions)) \o drawPaths(Tail(actions))

fillText(text) == [content |-> text.content, x |-> text.x, y |-> text.y]

RECURSIVE fillTexts(_)
fillTexts(texts) ==
    IF texts = <<>> THEN <<>> ELSE <<fillText(Head(texts))>> \o fillTexts(Tail(texts))

\* what redrawCanvas reads of the state that is no dependency of the blink
\* effect: the active id, the in-progress stroke it paints (none unless
\* drawing, with at least 2 points) and the centre of the eraser preview it
\* paints (none unless the eraser is selected and the button held)
View(c) ==
    [activeTextId |-> c.activeTextId,
     inProgress |-> IF c.isDrawing /\ Len(c.currentPath) >= 2 THEN c.currentPath ELSE <<>>,
     preview |-> IF c.activeTool = "eraser" /\ c.mouseIsDown /\ c.lastPoint # NoPoint
                 THEN c.lastPoint ELSE NoPoint]

\* the picture redrawCanvas paints at clock reading t, from the stores and the
\* typing flag of closure c and the view v of the rest of its closure
paint(c, v, t) ==
    LET IsActive(text) == text.id = v.activeTextId
        NotActive(text) == text.id # v.activeTextId \/ ~c.isTyping
        activeIndex == FindIndex([k \in 1..Len(c.textElements) |-> IsActive(c.textElements[k])])
        typingActive == activeIndex # 0 /\ c.isTyping
        activeText == c.textElements[activeIndex]
    IN  [paths |-> drawPaths(c.drawingActions) \o drawPath(v.inProgress),
         texts |-> fillTexts(SelectSeq(c.textElements, NotActive))
                     \o (IF typingActive THEN <<fillText(activeText)>> ELSE <<>>),
         caret |-> IF typingActive /\ (t \div BlinkMs) % 2 = 0
                   THEN Pt(activeText.x + measureText(activeText.content), activeText.y)
                   ELSE NoPoint,
         preview |-> v.preview]

redrawCanvas(c, t) == paint(c, View(c), t)

-----------------------------------------------------------------------------
(* Text labels *)

newTextElement(id, x, y) == [id |-> id, content |-> <<>>, x |-> x, y |-> y]

createTextAtPosition(c, u, p, t) ==
    LET newTextId == NumberToString(t)
        newText == newTextElement(newTextId, p.x, p.y)
        u1 == Set(u, "textElements", Append(c.textElements, newText))
        u2 == Set(u1, "activeTextId", newTextId)
        u3 == Set(u2, "isTyping", TRUE)
    IN  Set(u3, "isDrawing", FALSE)

\* a finalization that forgets setIsTyping(false)
finalizeKeepsTyping(c, u) ==
    IF ~c.isTyping THEN u
    ELSE LET IsActive(text) == text.id = c.activeTextId
             NotActive(text) == text.id # c.activeTextId
             activeIndex == FindIndex([k \in 1..Len(c.textElements) |->
                                          IsActive(c.textElements[k])])
             u1 == IF activeIndex # 0 /\ Len(c.textElements[activeIndex].content) = 0
                   THEN Set(u, "textElements", SelectSeq(c.textElements, NotActive))
                   ELSE u
         IN  Set(u1, "activeTextId", NoId)

finalizeCurrentText(c, u) ==
    IF ~c.isTyping THEN u
    ELSE LET IsActive(text) == text.id = c.activeTextId
             NotActive(text) == text.id # c.activeTextId
             activeIndex == FindIndex([k \in 1..Len(c.textElements) |->
                                          IsActive(c.textElements[k])])
             u1 == IF activeIndex # 0 /\ Len(c.textElements[activeIndex].content) = 0
                   THEN Set(u, "textElements", SelectSeq(c.textElements, NotActive))
                   ELSE u
             u2 == Set(u1, "isTyping", FALSE)
         IN  Set(u2, "activeTextId", NoId)

\* the hit test of handleMouseDown: is p inside the label's box
HitsText(text, p) ==
    /\ p.x >= text.x
    /\ p.x <= text.x + measureText(text.content)
    /\ p.y >= text.y - HitBand
    /\ p.y <= text.y

clickedTextIndex(c, p) ==
    LET Hit(text) == HitsText(text, p)
    IN  FindIndex([k \in 1..Len(c.textElements) |-> Hit(c.textElements[k])])

-----------------------------------------------------------------------------
(* The eraser *)

\* distance <= eraserSize / 2, on integer coordinates
WithinEraser(point, e) ==
    4 * ((point.x - e.x) * (point.x - e.x) + (point.y - e.y) * (point.y - e.y))
        <= eraserSize * eraserSize

\* the indices (1-based, ascending) of the points of path under the eraser
pointIndicesOf(path, e) ==
    LET Hit(i) == WithinEraser(path[i], e)
    IN  SelectSeq([i \in 1..Len(path) |-> i], Hit)

RECURSIVE intersectionsFrom(_, _, _)
intersectionsFrom(actions, e, actionIndex) ==
    IF actionIndex > Len(actions) THEN <<>>
    ELSE LET pointIndices == pointIndicesOf(actions[actionIndex], e)
             rest == intersectionsFrom(actions, e, actionIndex + 1)
         IN  IF Len(pointIndices) > 0
             THEN <<[actionIndex |-> actionIndex, pointIndices |-> pointIndices]>> \o rest
             ELSE rest

checkEraserIntersection(c, e) == intersectionsFrom(c.drawingActions, e, 1)

\* newPath.splice(index, 1) for each index, in the (descending) order given
RECURSIVE spliceAll(_, _)
spliceAll(path, indices) ==
    IF indices = <<>> THEN path
    ELSE spliceAll(RemoveAt(path, Head(indices)), Tail(indices))

\* an end-point removal that leaves the path as it is
keepEndPoint(path, pointIndex) == path

\* the first or last point alone is under the eraser: remove that point
removeEndPoint(path, pointIndex) == RemoveAt(path, pointIndex)

\* a split that keeps pathBefore and never pushes pathAfter
splitPathDropsAfter(actions, actionIndex, pointIndex) ==
    [actions EXCEPT ![actionIndex] = SubSeq(actions[actionIndex], 1, pointIndex - 1)]

\* an interior point alone is under the eraser: the path becomes pathBefore,
\* and pathAfter is pushed when it has at least 2 points
splitPath(actions, actionIndex, pointIndex) ==
    LET path == actions[actionIndex]
        pathBefore == SubSeq(path, 1, pointIndex - 1)
        pathAfter == SubSeq(path, pointIndex + 1, Len(path))
        replaced == [actions EXCEPT ![actionIndex] = pathBefore]
    IN  IF Len(pathAfter) >= 2 THEN Append(replaced, pathAfter) ELSE replaced

\* a removal of several points that keeps what is left however short it is
removePointsKeepsShort(actions, actionIndex, pointIndices) ==
    [actions EXCEPT ![actionIndex] = spliceAll(actions[actionIndex], Reverse(pointIndices))]

\* several points are under the eraser: remove them, keep what is left if it
\* has at least 2 points
removePoints(actions, actionIndex, pointIndices) ==
    LET newPath == spliceAll(actions[actionIndex], Reverse(pointIndices))
    IN  IF Len(newPath) >= 2
        THEN [actions EXCEPT ![actionIndex] = newPath]
        ELSE RemoveAt(actions, actionIndex)

\* a removal that takes the points of the path and leaves the path in the store
removePathPoints(actions, actionIndex) == [actions EXCEPT ![actionIndex] = <<>>]

\* every point of the path is under the eraser: remove the entire path
removePath(actions, actionIndex) == RemoveAt(actions, actionIndex)

\* the body of the forEach of applyEraser, for one intersection
eraseOne(actions, intersection) ==
    LET actionIndex == intersection.actionIndex
        pointIndices == intersection.pointIndices
        path == actions[actionIndex]
    IN  IF Len(pointIndices) = Len(path) THEN removePath(actions, actionIndex)
        ELSE IF Len(pointIndices) = 1
        THEN LET pointIndex == pointIndices[1]
             IN  IF pointIndex = 1 \/ pointIndex = Len(path)
                 THEN [actions EXCEPT ![actionIndex] = removeEndPoint(path, pointIndex)]
                 ELSE splitPath(actions, actionIndex, pointIndex)
        ELSE removePoints(actions, actionIndex, pointIndices)

RECURSIVE eraseAll(_, _)
eraseAll(actions, intersections) ==
    IF intersections = <<>> THEN actions
    ELSE eraseAll(eraseOne(actions, Head(intersections)), Tail(intersections))

\* the Stroke Store applyEraser computes at e
erased(actions, e) == eraseAll(actions, Reverse(intersectionsFrom(actions, e, 1)))

applyEraser(c, u, e) ==
    IF Len(checkEraserIntersection(c, e)) = 0 THEN u
    ELSE Set(u, "drawingActions", erased(c.drawingActions, e))

-----------------------------------------------------------------------------
(* The handlers: from the closure c and the event, the queued updates *)

handleMouseDown(c, p, t) ==
    LET u1 == Set(c, "mouseIsDown", TRUE)
        u2 == Set(u1, "mouseDownTime", t)
        u3 == Set(u2, "lastPoint", p)
        u4 == Set(u3, "initialClickPos", p)
        clicked == clickedTextIndex(c, p)
    IN  IF c.activeTool = "eraser" THEN applyEraser(c, u4, p)
        ELSE IF clicked # 0
        THEN Set(Set(Set(u4, "isTyping", TRUE), "isDrawing", FALSE),
                 "activeTextId", c.textElements[clicked].id)
        ELSE IF c.isTyping
        THEN createTextAtPosition(c, finalizeCurrentText(c, u4), p, t)
        ELSE Set(u4, "currentPath", <<p>>)

\* a drag test without the threshold: any move off the pointer-down point
BeyondPointerDown(c, p) ==
    /\ c.initialClickPos # NoPoint
    /\ \/ Abs(p.x - c.initialClickPos.x) > 0
       \/ Abs(p.y - c.initialClickPos.y) > 0

\* the drag test of handleMouseMove
BeyondThreshold(c, p) ==
    /\ c.initialClickPos # NoPoint
    /\ \/ Abs(p.x - c.initialClickPos.x) > dragThreshold
       \/ Abs(p.y - c.initialClickPos.y) > dragThreshold

handleMouseMove(c, p) ==
    IF ~c.mouseIsDown THEN c
    ELSE IF c.activeTool = "eraser" THEN Set(applyEraser(c, c, p), "lastPoint", p)
    ELSE LET u1 == IF BeyondThreshold(c, p)
                   THEN IF c.isTyping
                        THEN Set(Set(finalizeCurrentText(c, c), "isDrawing", TRUE),
                                 "currentPath", <<c.initialClickPos, p>>)
                        ELSE IF ~c.isDrawing THEN Set(c, "isDrawing", TRUE)
                        ELSE c
                   ELSE c
             \* setCurrentPath(prevPath => [...prevPath, { x, y }])
             u2 == IF c.isDrawing THEN Set(u1, "currentPath", Append(u1.currentPath, p))
                   ELSE u1
         IN  Set(u2, "lastPoint", p)

handleMouseUp(c, p, t) ==
    LET wasDrawing == c.isDrawing
        u1 == IF /\ ~wasDrawing
                 /\ ~c.isTyping
                 /\ t - c.mouseDownTime < ShortClickMs
                 /\ c.activeTool = "pen"
              THEN createTextAtPosition(c, c, p, t)
              ELSE c
        \* setDrawingActions(prevActions => [...prevActions, currentPath])
        u2 == IF wasDrawing /\ Len(c.currentPath) > 1
              THEN Set(Set(u1, "drawingActions", Append(u1.drawingActions, c.currentPath)),
                       "currentPath", <<>>)
              ELSE u1
        u3 == Set(u2, "mouseIsDown", FALSE)
        u4 == Set(u3, "isDrawing", FALSE)
    IN  Set(u4, "initialClickPos", NoPoint)

\* a pointer-leave that drops the in-progress stroke instead of committing it
onMouseLeaveDrops(c) ==
    LET u2 == Set(c, "mouseIsDown", FALSE)
        u3 == Set(u2, "isDrawing", FALSE)
    IN  Set(u3, "currentPath", <<>>)

onMouseLeave(c) ==
    LET u1 == IF c.isDrawing /\ Len(c.currentPath) > 1
              THEN Set(c, "drawingActions", Append(c.drawingActions, c.currentPath))
              ELSE c
        u2 == Set(u1, "mouseIsDown", FALSE)
        u3 == Set(u2, "isDrawing", FALSE)
    IN  Set(u3, "currentPath", <<>>)

handleKeyDown(c, key, t) ==
    LET IsActive(text) == text.id = c.activeTextId
        activeTextIndex == FindIndex([k \in 1..Len(c.textElements) |-> IsActive(c.textElements[k])])
        textEl == c.textElements[activeTextIndex]
    IN  IF activeTextIndex = 0 THEN c
        ELSE IF key \in Chars
        THEN LET u1 == IF ~c.isTyping
                       THEN Set(Set(c, "isTyping", TRUE), "isDrawing", FALSE)
                       ELSE c
             IN  Set(u1, "textElements",
                     [c.textElements EXCEPT ![activeTextIndex].content = Append(@, key)])
        ELSE IF key = "Backspace"
        THEN IF Len(textEl.content) > 0
             THEN Set(c, "textElements",
                      [c.textElements EXCEPT ![activeTextIndex].content =
                                                 SubSeq(@, 1, Len(@) - 1)])
             ELSE c
        ELSE IF key = "Enter"
        THEN LET newTextId == NumberToString(t)
                 newText == newTextElement(newTextId, textEl.x, textEl.y + LineOffset)
             IN  Set(Set(c, "textElements", Append(c.textElements, newText)),
                     "activeTextId", newTextId)
        ELSE IF key = "Escape" THEN finalizeCurrentText(c, c)
        ELSE c

-----------------------------------------------------------------------------
(* The commit of a handler's updates, and the effects of the render after it *)

\* the view the closure of the blink interval has when nothing was captured
NoView == [activeTextId |-> NoId, inProgress |-> <<>>, preview |-> NoPoint]

NoBlink == [at |-> NoTimer, view |-> NoView]

RedrawDeps ==
    {"textElements", "drawingActions", "isTyping", "activeTextId", "activeTool",
     "mouseIsDown", "lastPoint", "currentPath", "isDrawing"}

BlinkDeps == {"isTyping", "textElements", "drawingActions"}

InactivityDeps == {"isTyping", "textElements", "activeTextId"}

\* the model only follows the program while it stays within the bounds
WithinBounds(c, u) ==
    /\ Len(u.currentPath) <= MaxPathLen
    /\ TotalPoints(u.drawingActions) > TotalPoints(c.drawingActions)
          => TotalPoints(u.drawingActions) <= MaxPoints
    /\ Len(u.textElements) <= MaxLabels
    /\ \A i \in 1..Len(u.textElements) : Len(u.textElements[i].content) <= MaxContentLen

\* an inactivity effect that arms the timeout only when Typing begins
inactivityEffectArmsOnce(c, u, timer, t) ==
    IF \E f \in InactivityDeps : Changed(c, u, f)
    THEN IF u.isTyping /\ ~c.isTyping THEN t ELSE NoTimer
    ELSE timer

\* useEffect(inactivity) after a render at clock reading t, the pending
\* timeout being timer: when a dependency changed the timeout is cleared, and
\* armed again if Typing
inactivityEffect(c, u, timer, t) ==
    IF \E f \in InactivityDeps : Changed(c, u, f)
    THEN IF u.isTyping THEN t ELSE NoTimer
    ELSE timer

Commit(c, u) ==
    /\ WithinBounds(c, u)
    /\ isDrawing' = u.isDrawing
    /\ isTyping' = u.isTyping
    /\ activeTextId' = u.activeTextId
    /\ textElements' = u.textElements
    /\ drawingActions' = u.drawingActions
    /\ lastPoint' = u.lastPoint
    /\ currentPath' = u.currentPath
    /\ mouseDownTime' = u.mouseDownTime
    /\ mouseIsDown' = u.mouseIsDown
    /\ initialClickPos' = u.initialClickPos
    /\ activeTool' = u.activeTool
    \* useEffect(redraw)
    /\ canvas' = IF \E f \in RedrawDeps : Changed(c, u, f)
                 THEN redrawCanvas(u, now) ELSE canvas
    \* useEffect(blink): the interval is cleared and set again with the closure
    \* of this render; while not typing its callback does nothing, and is not kept
    /\ blinkTimer' = IF \E f \in BlinkDeps : Changed(c, u, f)
                     THEN IF u.isTyping THEN [at |-> now, view |-> View(u)]
                          ELSE NoBlink
                     ELSE blinkTimer
    \* useEffect(inactivity): the timeout is cleared, and armed again if typing
    /\ inactivityTimer' = inactivityEffect(c, u, inactivityTimer, now)

-----------------------------------------------------------------------------
(* History: the pen gesture in progress and the keys sent to the label      *)
(* created last.  The program reads neither.                                *)
(*                                                                         *)
(* gesture.phase is                                                        *)
(*   "click"   after a pen pointer-down on no label, nothing since but time *)
(*             passing; before is the Text Store before that pointer-down   *)
(*   "held"    after a pen pointer-down and only pointer-moves since, none  *)
(*             beyond the drag threshold                                    *)
(*   "drag"    the same, with a move beyond the drag threshold              *)
(*   "clicked" in the state right after the pointer-up of a short click:    *)
(*             from "click", at the point of the pointer-down, less than    *)
(*             ShortClickMs later, the surface not Drawing                  *)
(*   "dragged" in the state right after the pointer-up that ends a "drag";  *)
(*             before is the Stroke Store before that pointer-up            *)
(* session.phase is                                                        *)
(*   "live"    since createTextAtPosition made the label at index, while    *)
(*             only printable keys (typed) and timer callbacks followed     *)
(*   "escaped" in the state right after Escape ended a live session         *)

NoGesture == [phase |-> "none", before |-> <<>>]

NoSession == [phase |-> "none", index |-> 0, typed |-> <<>>]

\* erase.applied holds in the state right after a handler called applyEraser
\* at the point erase.at, on the Stroke Store erase.before
NoErase == [applied |-> FALSE, before |-> <<>>, at |-> NoPoint]

Erased(c, p) == [applied |-> TRUE, before |-> c.drawingActions, at |-> p]

GestureOpen == gesture.phase \in {"click", "held", "drag"}

\* the gesture after time passes or the blink interval fires
GestureKept == IF GestureOpen THEN gesture ELSE NoGesture

GestureAfterDown(c, p) ==
    IF c.activeTool # "pen" THEN NoGesture
    ELSE IF clickedTextIndex(c, p) # 0 THEN [phase |-> "held", before |-> <<>>]
    ELSE [phase |-> "click", before |-> c.textElements]

GestureAfterMove(c, p) ==
    IF ~(c.mouseIsDown /\ GestureOpen) THEN NoGesture
    ELSE IF gesture.phase = "drag" \/ BeyondThreshold(c, p)
    THEN [phase |-> "drag", before |-> <<>>]
    ELSE [phase |-> "held", before |-> <<>>]

GestureAfterUp(c, p, t) ==
    IF /\ gesture.phase = "click"
       /\ p = c.initialClickPos
       /\ t - c.mouseDownTime < ShortClickMs
       /\ ~c.isDrawing
    THEN [gesture EXCEPT !.phase = "clicked"]
    ELSE IF gesture.phase = "drag"
    THEN [phase |-> "dragged", before |-> c.drawingActions]
    ELSE NoGesture

\* the session after an event that creates no label and is no key
SessionAfter(c, u) ==
    IF /\ session.phase = "live"
       /\ u.textElements = c.textElements
       /\ u.activeTextId = c.activeTextId
       /\ u.isTyping = c.isTyping
    THEN session
    ELSE NoSession

\* the session after time passes or a timer callback runs
SessionKept == IF session.phase = "live" THEN session ELSE NoSession

SessionCreated(u) == [phase |-> "live", index |-> Len(u.textElements), typed |-> <<>>]

SessionAfterKey(c, u, key) ==
    IF session.phase # "live" THEN NoSession
    ELSE IF key \in Chars THEN [session EXCEPT !.typed = Append(@, key)]
    ELSE IF key = "Escape" THEN [session EXCEPT !.phase = "escaped"]
    ELSE IF key \in {"Backspace", "Enter"} THEN NoSession
    ELSE session

\* handleMouseDown takes the branch that calls createTextAtPosition
CreatesOnDown(c, p) ==
    c.activeTool = "pen" /\ clickedTextIndex(c, p) = 0 /\ c.isTyping

\* handleMouseUp takes the branch that calls createTextAtPosition
CreatesOnUp(c, t) ==
    /\ ~c.isDrawing
    /\ ~c.isTyping
    /\ t - c.mouseDownTime < ShortClickMs
    /\ c.activeTool = "pen"

-----------------------------------------------------------------------------
(* The actions: one per event handler or timer callback *)

MouseDown(p) ==
    LET c == Closure
        u == handleMouseDown(c, p, now)
    IN  /\ Commit(c, u)
        /\ gesture' = GestureAfterDown(c, p)
        /\ session' = IF CreatesOnDown(c, p) THEN SessionCreated(u) ELSE SessionAfter(c, u)
        /\ erase' = IF c.activeTool = "eraser" THEN Erased(c, p) ELSE NoErase
        /\ UNCHANGED <<now, ticks, canvasSize>>

MouseMove(p) ==
    LET c == Closure
        u == handleMouseMove(c, p)
    IN  /\ Commit(c, u)
        /\ gesture' = GestureAfterMove(c, p)
        /\ session' = SessionAfter(c, u)
        /\ erase' = IF c.mouseIsDown /\ c.activeTool = "eraser" THEN Erased(c, p) ELSE NoErase
        /\ UNCHANGED <<now, ticks, canvasSize>>

MouseUp(p) ==
    LET c == Closure
        u == handleMouseUp(c, p, now)
    IN  /\ Commit(c, u)
        /\ gesture' = GestureAfterUp(c, p, now)
        /\ session' = IF CreatesOnUp(c, now) THEN SessionCreated(u) ELSE SessionAfter(c, u)
        /\ erase' = NoErase
        /\ UNCHANGED <<now, ticks, canvasSize>>

MouseLeave ==
    LET c == Closure
        u == onMouseLeave(c)
    IN  /\ Commit(c, u)
        /\ gesture' = NoGesture
        /\ session' = SessionAfter(c, u)
        /\ erase' = NoErase
        /\ UNCHANGED <<now, ticks, canvasSize>>

KeyDown(key) ==
    LET c == Closure
        u == handleKeyDown(c, key, now)
    IN  /\ session.phase = "live" /\ key \in Chars => Len(session.typed) < MaxContentLen
        /\ Commit(c, u)
        /\ gesture' = NoGesture
        /\ session' = SessionAfterKey(c, u, key)
        /\ erase' = NoErase
        /\ UNCHANGED <<now, ticks, canvasSize>>

\* onClick of the pen and eraser buttons
SelectTool(tool) ==
    LET c == Closure
        u == Set(c, "activeTool", tool)
    IN  /\ Commit(c, u)
        /\ gesture' = NoGesture
        /\ session' = SessionKept
        /\ erase' = NoErase
        /\ UNCHANGED <<now, ticks, canvasSize>>

\* the callback of the inactivity timeout.  Its closure is the one of the
\* render that armed it; that render's isTyping, textElements and activeTextId,
\* all that finalizeCurrentText reads, are the current ones, since a change of
\* any of them clears the timeout.
InactivityTimeout ==
    LET c == Closure
        u == finalizeCurrentText(c, c)
    IN  /\ inactivityTimer # NoTimer
        /\ now - inactivityTimer >= InactivityMs
        /\ Commit(c, u)
        /\ gesture' = NoGesture
        /\ session' = SessionKept
        /\ erase' = NoErase
        /\ UNCHANGED <<now, ticks, canvasSize>>

\* the callback of the blink interval.  Its closure is the one of the render
\* that set the interval: the dependencies of the blink effect (isTyping,
\* textElements, drawingActions) are current, the rest is that render's.
BlinkInterval ==
    /\ blinkTimer.at # NoTimer
    /\ now - blinkTimer.at >= BlinkMs
    /\ canvas' = IF isTyping THEN paint(Closure, blinkTimer.view, now) ELSE canvas
    /\ blinkTimer' = [blinkTimer EXCEPT !.at = now]
    /\ gesture' = GestureKept
    /\ session' = SessionKept
    /\ erase' = NoErase
    /\ UNCHANGED <<progVars, now, ticks, inactivityTimer, canvasSize>>

\* the state of the first render
InitialClosure ==
    [isDrawing |-> FALSE, isTyping |-> FALSE, activeTextId |-> NoId,
     textElements |-> <<>>, drawingActions |-> <<>>, lastPoint |-> NoPoint,
     currentPath |-> <<>>, mouseDownTime |-> 0, mouseIsDown |-> FALSE,
     initialClickPos |-> NoPoint, activeTool |-> "pen", touched |-> {}]

\* a resize listener that empties the Stroke Store
handleResizeClears(c, size) == Set(c, "drawingActions", <<>>)

\* handleResize queues no state update
handleResize(c, size) == c

\* the state of the next render is the queued one
SetState(u) ==
    /\ isDrawing' = u.isDrawing
    /\ isTyping' = u.isTyping
    /\ activeTextId' = u.activeTextId
    /\ textElements' = u.textElements
    /\ drawingActions' = u.drawingActions
    /\ lastPoint' = u.lastPoint
    /\ currentPath' = u.currentPath
    /\ mouseDownTime' = u.mouseDownTime
    /\ mouseIsDown' = u.mouseIsDown
    /\ initialClickPos' = u.initialClickPos
    /\ activeTool' = u.activeTool

\* the resize listener.  It was registered by the effect of the first render
\* (dependencies []), so the redrawCanvas it calls is the one of that render,
\* closed over the initial state.  Setting canvas.width clears the canvas; no
\* state is set, so no effect runs afterwards.
Resize(size) ==
    LET c == Closure
        u == handleResize(c, size)
    IN  /\ SetState(u)
        /\ canvasSize' = size
        /\ canvas' = redrawCanvas(InitialClosure, now)
        /\ gesture' = GestureKept
        /\ session' = SessionKept
        /\ erase' = NoErase
        /\ UNCHANGED <<now, ticks, inactivityTimer, blinkTimer>>

\* time passes
Tick(d) ==
    /\ ticks < MaxTicks
    /\ ticks' = ticks + 1
    /\ now' = now + d
    /\ gesture' = GestureKept
    /\ session' = SessionKept
    /\ erase' = NoErase
    /\ UNCHANGED <<progVars, inactivityTimer, blinkTimer, canvas, canvasSize>>

-----------------------------------------------------------------------------
(* The specifications *)

\* the state after the component is mounted and its effects have run
Init ==
    /\ isDrawing = FALSE
    /\ isTyping = FALSE
    /\ activeTextId = NoId
    /\ textElements = <<>>
    /\ drawingActions = <<>>
    /\ lastPoint = NoPoint
    /\ currentPath = <<>>
    /\ mouseDownTime = 0
    /\ mouseIsDown = FALSE
    /\ initialClickPos = NoPoint
    /\ activeTool = "pen"
    /\ now = StartTime
    /\ inactivityTimer = NoTimer
    /\ blinkTimer = NoBlink
    /\ canvasSize = InitialSize
    /\ canvas = redrawCanvas(InitialClosure, StartTime)
    /\ gesture = NoGesture
    /\ session = NoSession
    /\ ticks = 0
    /\ erase = NoErase

Next ==
    \/ \E p \in Points : MouseDown(p)
    \/ \E p \in Points : MouseMove(p)
    \/ \E p \in Points : MouseUp(p)
    \/ MouseLeave
    \/ \E key \in Keys : KeyDown(key)
    \/ InactivityTimeout
    \/ BlinkInterval
    \/ \E d \in TickSteps : Tick(d)

Spec == Init /\ [][Next]_vars

\* the Stroke Stores of at most n points in all, every stroke of at least 2
\* points of ErasePoints: what pen gestures over those points can commit
RECURSIVE StoresUpTo(_)
StoresUpTo(n) ==
    {<<>>} \cup UNION {{<<stroke>> \o rest : stroke \in [1..len -> ErasePoints],
                                             rest \in StoresUpTo(n - len)} :
                       len \in 2..n}

\* the eraser has been selected with some strokes drawn and no label made
InitEraser ==
    /\ drawingActions \in StoresUpTo(MaxErasePoints)
    /\ activeTool = "eraser"
    /\ isDrawing = FALSE
    /\ isTyping = FALSE
    /\ activeTextId = NoId
    /\ textElements = <<>>
    /\ lastPoint = NoPoint
    /\ currentPath = <<>>
    /\ mouseDownTime = 0
    /\ mouseIsDown = FALSE
    /\ initialClickPos = NoPoint
    /\ now = StartTime
    /\ inactivityTimer = NoTimer
    /\ blinkTimer = NoBlink
    /\ canvasSize = InitialSize
    /\ canvas = redrawCanvas([InitialClosure EXCEPT !.drawingActions = drawingActions,
                                                    !.activeTool = "eraser"],
                          StartTime)
    /\ gesture = NoGesture
    /\ session = NoSession
    /\ ticks = 0
    /\ erase = NoErase

NextEraser ==
    \/ \E p \in ErasePoints : MouseDown(p)
    \/ \E p \in ErasePoints : MouseMove(p)
    \/ \E p \in ErasePoints : MouseUp(p)
    \/ MouseLeave

SpecEraser == InitEraser /\ [][NextEraser]_vars

\* the pen surface with the tool buttons: pointer events and tool selection
NextTools ==
    \/ \E p \in Points : MouseDown(p)
    \/ \E p \in Points : MouseMove(p)
    \/ \E p \in Points : MouseUp(p)
    \/ MouseLeave
    \/ \E tool \in {"pen", "eraser"} : SelectTool(tool)

SpecTools == Init /\ [][NextTools]_vars

\* the pen surface in a window that is resized: pointer events, keys, resizes
NextResize ==
    \/ \E p \in Points : MouseDown(p)
    \/ \E p \in Points : MouseMove(p)
    \/ \E p \in Points : MouseUp(p)
    \/ MouseLeave
    \/ \E key \in Keys : KeyDown(key)
    \/ \E size \in Sizes : Resize(size)

SpecResize == Init /\ [][NextResize]_vars

\* a pointer or key event
UserStep ==
    \/ \E p \in Points : MouseDown(p) \/ MouseMove(p) \/ MouseUp(p)
    \/ MouseLeave
    \/ \E key \in Keys : KeyDown(key)

\* the pen surface left alone: the user acts while the clock of the model can
\* still advance, time passes by the inactivity delay, and the timers fire
NextInactivity ==
    \/ ticks < MaxTicks /\ UserStep
    \/ Tick(InactivityMs)
    \/ InactivityTimeout
    \/ BlinkInterval

\* time does pass, and the browser does run a timeout that is due
SpecInactivity ==
    /\ Init
    /\ [][NextInactivity]_vars
    /\ WF_vars(Tick(InactivityMs))
    /\ WF_vars(InactivityTimeout)

\* the pen surface with the pointer also moving within the drag threshold:
\* pointer events and keys
NextDrag ==
    \/ \E p \in DragPoints : MouseDown(p)
    \/ \E p \in DragPoints : MouseMove(p)
    \/ \E p \in DragPoints : MouseUp(p)
    \/ MouseLeave
    \/ \E key \in Keys : KeyDown(key)

SpecDrag == Init /\ [][NextDrag]_vars

\* two labels typed and finalized earlier, at different clock readings, one at
\* each pointer position
EarlierLabels ==
    <<[id |-> NumberToString(2 * ShortClickMs), content |-> <<"a">>, x |-> 10, y |-> 10],
      [id |-> NumberToString(3 * ShortClickMs), content |-> <<"a">>, x |-> 10, y |-> 34]>>

\* the pen surface, idle, with the two labels in the Text Store
InitBlink ==
    /\ textElements = EarlierLabels
    /\ isDrawing = FALSE
    /\ isTyping = FALSE
    /\ activeTextId = NoId
    /\ drawingActions = <<>>
    /\ lastPoint = NoPoint
    /\ currentPath = <<>>
    /\ mouseDownTime = 0
    /\ mouseIsDown = FALSE
    /\ initialClickPos = NoPoint
    /\ activeTool = "pen"
    /\ now = StartTime
    /\ inactivityTimer = NoTimer
    /\ blinkTimer = NoBlink
    /\ canvasSize = InitialSize
    /\ canvas = redrawCanvas([InitialClosure EXCEPT !.textElements = EarlierLabels],
                          StartTime)
    /\ gesture = NoGesture
    /\ session = NoSession
    /\ ticks = 0
    /\ erase = NoErase

\* pointer events and keys, and the blink interval over two blink periods,
\* before any inactivity timeout is due
NextBlink ==
    \/ \E p \in Points : MouseDown(p)
    \/ \E p \in Points : MouseMove(p)
    \/ \E p \in Points : MouseUp(p)
    \/ MouseLeave
    \/ \E key \in Keys : KeyDown(key)
    \/ BlinkInterval
    \/ Tick(2 * BlinkMs)

SpecBlink == InitBlink /\ [][NextBlink]_vars

-----------------------------------------------------------------------------
(* The properties checked *)

\* the labels of the Text Store that carry the given id
LabelsWithId(id) == {i \in 1..Len(textElements) : textElements[i].id = id}

\* the label the key handler edits and the caret is painted at: the first
\* one carrying the active id (findIndex), 0 when there is none
ActiveIndex ==
    LET IsActive(text) == text.id = activeTextId
    IN  FindIndex([k \in 1..Len(textElements) |-> IsActive(textElements[k])])

Occurrences(seq, x) == Cardinality({i \in 1..Len(seq) : seq[i] = x})

\* the two stores hold the same strokes, each as often, in whatever order
SameStrokes(a, b) ==
    /\ Len(a) = Len(b)
    /\ \A i \in 1..Len(a) : Occurrences(a, a[i]) = Occurrences(b, a[i])

\* a side of a split stroke is kept only if it has at least 2 points
KeptSide(side) == IF Len(side) >= 2 THEN <<side>> ELSE <<>>

\* the strokes the eraser application that led to this state touched
Hits == intersectionsFrom(erase.before, erase.at, 1)

\* the eraser was applied with exactly one stroke under it, and of that
\* stroke exactly one point, an interior one
SingleInteriorHit ==
    /\ erase.applied
    /\ Len(Hits) = 1
    /\ Len(Hits[1].pointIndices) = 1
    /\ Hits[1].pointIndices[1] \notin {1, Len(erase.before[Hits[1].actionIndex])}

\* the eraser was applied with exactly one stroke under it, and of that
\* stroke every point
WholeStrokeHit ==
    /\ erase.applied
    /\ Len(Hits) = 1
    /\ Len(Hits[1].pointIndices) = Len(erase.before[Hits[1].actionIndex])

\* C1: in every reachable state every stroke of the Stroke Store has at least
\* 2 points
C1_StrokesHaveTwoPoints ==
    \A i \in 1..Len(drawingActions) : Len(drawingActions[i]) >= 2

\* C2: in the state after the pointer-up that ends a pen drag (a move went
\* beyond the drag threshold), the Stroke Store is the one before that
\* pointer-up with exactly one stroke appended, of at least 2 points
C2_DragAppendsOneStroke ==
    gesture.phase = "dragged" =>
        /\ Len(drawingActions) = Len(gesture.before) + 1
        /\ SubSeq(drawingActions, 1, Len(gesture.before)) = gesture.before
        /\ Len(drawingActions[Len(drawingActions)]) >= 2

\* C3: after an eraser application with exactly one point of one stroke under
\* it, interior at index k, the store holds the other strokes, the prefix of
\* length k if that has at least 2 points, and the suffix of length len-1-k if
\* that has at least 2 points, and nothing else
C3_InteriorHitSplits ==
    SingleInteriorHit =>
        LET actionIndex == Hits[1].actionIndex
            pointIndex == Hits[1].pointIndices[1]
            path == erase.before[actionIndex]
        IN  SameStrokes(drawingActions,
                        RemoveAt(erase.before, actionIndex)
                            \o KeptSide(SubSeq(path, 1, pointIndex - 1))
                            \o KeptSide(SubSeq(path, pointIndex + 1, Len(path))))

\* C4: in every reachable state a label with empty content carries the active
\* id of a surface that is Typing
C4_EmptyLabelIsActive ==
    \A i \in 1..Len(textElements) :
        textElements[i].content = <<>> => isTyping /\ textElements[i].id = activeTextId

\* C5: in the state after a short pen click on no label, the Text Store is
\* the one before the click with exactly one label appended, empty and at the
\* click point; the surface is Typing and that label is the active one
C5_ShortClickCreatesActiveLabel ==
    gesture.phase = "clicked" =>
        /\ Len(textElements) = Len(gesture.before) + 1
        /\ SubSeq(textElements, 1, Len(gesture.before)) = gesture.before
        /\ textElements[Len(textElements)].content = <<>>
        /\ textElements[Len(textElements)].x = lastPoint.x
        /\ textElements[Len(textElements)].y = lastPoint.y
        /\ isTyping
        /\ ActiveIndex = Len(textElements)

\* C6: in the state after Escape ends the typing of N printable keys into a
\* label just created, with only timer callbacks in between, the label is the
\* last of the store and its content is those keys in order; if N = 0 the
\* label is gone
C6_TypedThenEscape ==
    session.phase = "escaped" =>
        IF session.typed = <<>>
        THEN Len(textElements) = session.index - 1
        ELSE /\ Len(textElements) = session.index
             /\ textElements[session.index].content = session.typed

\* C7: in every reachable state no two labels of the Text Store share an id
C7_LabelIdsUnique ==
    \A i, j \in 1..Len(textElements) :
        textElements[i].id = textElements[j].id => i = j

\* C8: in every reachable state the surface is Typing iff activeTextId is not
\* null, and when it is Typing exactly one label carries the active id
C8_OneActiveLabel ==
    /\ isTyping <=> activeTextId # NoId
    /\ isTyping => Cardinality(LabelsWithId(activeTextId)) = 1

\* C9: in no reachable state are isDrawing and isTyping both true
C9_NotDrawingAndTyping == ~(isDrawing /\ isTyping)

\* a stroke is being drawn, not typing, on a surface that has a label
C9_DrawingBesideLabel ==
    isDrawing /\ ~isTyping /\ mouseIsDown /\ textElements # <<>>

\* C10: after an eraser application with every point of one stroke under it
\* and no point of another, the Stroke Store is the one before without that
\* stroke: the others are kept, in order, and there is one stroke fewer
C10_WholeStrokeRemoved ==
    WholeStrokeHit =>
        /\ drawingActions = RemoveAt(erase.before, Hits[1].actionIndex)
        /\ Len(drawingActions) = Len(erase.before) - 1

\* every point of one of several strokes was under the eraser
C10_WholeStrokeAmongOthers == WholeStrokeHit /\ Len(erase.before) >= 2

\* a pointer-down, pointer-move or pointer-up
PointerStep ==
    \E p \in Points : MouseDown(p) \/ MouseMove(p) \/ MouseUp(p)

\* C11: a pointer-down, pointer-move or pointer-up with the eraser selected
\* leaves the Text Store, the active id and the Typing flag as they are,
\* neither starts nor extends the in-progress stroke, and changes the Stroke
\* Store only by the eraser applied at the pointer (no stroke is committed)
C11_EraserRunsOnlyEraser ==
    [][(activeTool = "eraser" /\ PointerStep) =>
          /\ textElements' = textElements
          /\ activeTextId' = activeTextId
          /\ isTyping' = isTyping
          /\ currentPath' \in {currentPath, <<>>}
          /\ drawingActions' = IF erase'.applied
                               THEN erased(drawingActions, erase'.at)
                               ELSE drawingActions]_vars

\* the resize listener runs
ResizeStep == \E size \in Sizes : Resize(size)

\* C12: after the resize listener has run, the canvas shows what redrawCanvas
\* paints from the state as it is then
C12_ResizeRedrawsCurrentState ==
    [][ResizeStep => canvas' = redrawCanvas(Closure', now')]_vars

\* C13: the resize listener changes no state of the surface: the stores, the
\* active id, the flags and the rest stay as they are
C13_ResizeKeepsState == [][ResizeStep => UNCHANGED progVars]_vars

\* the window was resized with a stroke and a label stored
C13_ResizedWithContent ==
    canvasSize # InitialSize /\ drawingActions # <<>> /\ textElements # <<>>

\* C14: if from some point on no key or pointer event changes anything, then
\* from some point on the surface is not Typing and has no active label; and
\* the inactivity callback leaves the surface Idle with no active label,
\* removes the active label if it is empty and leaves the Text Store as it is
\* otherwise
C14_InactivityFinalizes ==
    /\ []<><<UserStep>>_vars \/ <>[](~isTyping /\ activeTextId = NoId)
    /\ [][InactivityTimeout =>
             /\ ~isTyping' /\ ~isDrawing' /\ activeTextId' = NoId
             /\ IF ActiveIndex # 0 /\ textElements[ActiveIndex].content = <<>>
                THEN \A i \in 1..Len(textElements') :
                         textElements'[i] # textElements[ActiveIndex]
                ELSE textElements' = textElements]_vars

\* the inactivity timeout has ended the editing of a label with content
C14_TimedOutLabelKept ==
    /\ ~isTyping
    /\ activeTextId = NoId
    /\ now >= StartTime + InactivityMs
    /\ \E i \in 1..Len(textElements) : textElements[i].content # <<>>

\* a pen pointer-down at p, on no label, while the surface is Typing
ClickElsewhere(p) ==
    /\ activeTool = "pen"
    /\ isTyping
    /\ clickedTextIndex(Closure, p) = 0
    /\ MouseDown(p)

\* the Text Store once the active label is finalized: without it if it is
\* empty, unchanged otherwise
FinalizedStore ==
    IF ActiveIndex # 0 /\ textElements[ActiveIndex].content = <<>>
    THEN RemoveAt(textElements, ActiveIndex)
    ELSE textElements

\* C15: a pen pointer-down on no label while Typing leaves the Text Store as
\* the finalized store with exactly one label appended, empty and at the
\* click point; the surface is Typing and that label is the active one
C15_ClickElsewhereWhileTyping ==
    [][\A p \in Points :
          ClickElsewhere(p) =>
              /\ Len(textElements') = Len(FinalizedStore) + 1
              /\ SubSeq(textElements', 1, Len(FinalizedStore)) = FinalizedStore
              /\ textElements'[Len(textElements')].content = <<>>
              /\ textElements'[Len(textElements')].x = p.x
              /\ textElements'[Len(textElements')].y = p.y
              /\ isTyping'
              /\ ActiveIndex' = Len(textElements')]_vars

\* C16: a stroke appended to the Stroke Store with the pen begins with the
\* point of the pointer-down of the gesture that drew it
C16_StrokeStartsAtPointerDown ==
    [][(activeTool = "pen" /\ Len(drawingActions') = Len(drawingActions) + 1) =>
          drawingActions'[Len(drawingActions')][1] = initialClickPos]_vars

\* C17: whenever no button is held on the surface, the in-progress stroke is
\* empty
C17_NoButtonNoCurrentPath == ~mouseIsDown => currentPath = <<>>

\* the position is more than dist px from the point
FartherThan(p, q, dist) ==
    (p.x - q.x) * (p.x - q.x) + (p.y - q.y) * (p.y - q.y) > dist * dist

\* a pointer-move, with the button held, to a position more than 5px from
\* the pointer-down point
MoveBeyondThreshold ==
    \E p \in DragPoints :
        /\ MouseMove(p)
        /\ mouseIsDown
        /\ initialClickPos # NoPoint
        /\ FartherThan(p, initialClickPos, dragThreshold)

\* C18: with no button held the surface is not Drawing; and in pen mode, from
\* a state that is not Drawing, a step that is no pointer-move beyond 5px of
\* the pointer-down point with the button held leaves the surface not Drawing
\* and the Stroke Store as it is
C18_DrawingOnlyBeyondThreshold ==
    /\ [](~mouseIsDown => ~isDrawing)
    /\ [][(activeTool = "pen" /\ ~isDrawing /\ ~MoveBeyondThreshold) =>
             (~isDrawing' /\ drawingActions' = drawingActions)]_vars

\* the button is held after a move within the threshold of the pointer-down
\* point, and the surface is not Drawing
C18_MovedWithinThreshold ==
    /\ mouseIsDown
    /\ ~isDrawing
    /\ lastPoint # initialClickPos
    /\ ~FartherThan(lastPoint, initialClickPos, dragThreshold)

\* a pen pointer-move to p that crosses the drag threshold while Typing
CrossesWhileTyping(p) ==
    /\ MouseMove(p)
    /\ activeTool = "pen"
    /\ mouseIsDown
    /\ isTyping
    /\ BeyondThreshold(Closure, p)

LeaveIsPointerUp ==
    /\ drawingActions' = IF isDrawing /\ Len(currentPath) >= 2
                         THEN Append(drawingActions, currentPath)
                         ELSE drawingActions
    /\ currentPath' = <<>>
    /\ ~mouseIsDown'
    /\ textElements' = textElements
    /\ ~isDrawing'

\* C20: pointer-leave acts as an implicit pointer-up and leaves Typing alone:
\* the stroke of a Drawing surface is committed as above, the in-progress
\* stroke is empty, no button is held, no label is created, the surface is not
\* Drawing, and it is Typing on the same label exactly if it was before
C20_LeaveKeepsTyping ==
    [][MouseLeave =>
          /\ LeaveIsPointerUp
          /\ isTyping' = isTyping
          /\ activeTextId' = activeTextId]_vars

\* the pointer has left the surface during a drag and the dragged stroke is
\* the last of the Stroke Store
C20_LeftWhileDrawing ==
    /\ ~mouseIsDown
    /\ initialClickPos # NoPoint
    /\ currentPath = <<>>
    /\ drawingActions # <<>>
    /\ drawingActions[Len(drawingActions)][1] = initialClickPos
    /\ drawingActions[Len(drawingActions)][Len(drawingActions[Len(drawingActions)])] = lastPoint

\* C20 as stated: after every pointer-leave the surface is Idle, neither
\* Drawing nor Typing
C20_LeaveResetsToIdle ==
    [][MouseLeave => (LeaveIsPointerUp /\ ~isTyping')]_vars

\* the points of the path that are not within the eraser radius of e, in
\* their order
Remainder(path, e) ==
    LET Outside(point) == ~WithinEraser(point, e)
    IN  SelectSeq(path, Outside)

\* the eraser was applied, and every stroke under it had two or more, but not
\* all, of its points within the radius
MultiPointHits ==
    /\ erase.applied
    /\ Hits # <<>>
    /\ \A h \in 1..Len(Hits) :
           /\ Len(Hits[h].pointIndices) >= 2
           /\ Len(Hits[h].pointIndices) < Len(erase.before[Hits[h].actionIndex])

\* the store with every stroke under the eraser at e reduced to its
\* remainder: one stroke at the place of the original if the remainder has at
\* least 2 points, nothing otherwise; the strokes not under it as they are
RECURSIVE Remainders(_, _)
Remainders(actions, e) ==
    IF actions = <<>> THEN <<>>
    ELSE LET path == Head(actions)
             kept == IF Remainder(path, e) = path THEN <<path>>
                     ELSE KeptSide(Remainder(path, e))
         IN  kept \o Remainders(Tail(actions), e)

\* C21: after an eraser application under which every stroke hit has two or
\* more, but not all, of its points, each stroke hit has become its remainder
\* (exactly the points within the radius removed, the others in their order)
\* as one single stroke if that has at least 2 points and is deleted
\* otherwise; the strokes not hit are as they were
C21_MultiPointHitKeepsOneStroke ==
    MultiPointHits => drawingActions = Remainders(erase.before, erase.at)

\* two points that were not contiguous were removed from a stroke, and what
\* is left of it is in the store as one stroke
C21_NonContiguousRemoved ==
    /\ MultiPointHits
    /\ \E h \in 1..Len(Hits) :
           /\ Hits[h].pointIndices[2] > Hits[h].pointIndices[1] + 1
           /\ Len(Remainder(erase.before[Hits[h].actionIndex], erase.at)) >= 2
    /\ Len(drawingActions) = Len(erase.before)

\* C22: in the state after an eraser application (a pointer-down, or a
\* pointer-move with the button held, with the eraser selected) no stroke of
\* the Stroke Store has a point within the eraser radius of the pointer
\* position; and a pointer-move with no button held leaves the Stroke Store as
\* it is
C22_NothingLeftUnderEraser ==
    /\ [](erase.applied =>
             \A i \in 1..Len(drawingActions) :
                 \A k \in 1..Len(drawingActions[i]) :
                     ~WithinEraser(drawingActions[i][k], erase.at))
    /\ [][\A p \in ErasePoints :
             (MouseMove(p) /\ ~mouseIsDown) => drawingActions' = drawingActions]_vars

\* the eraser was applied by a pointer-move of an eraser drag, away from the
\* pointer-down point, and had points of a stroke under it
C22_ErasedDuringDrag ==
    /\ erase.applied
    /\ mouseIsDown
    /\ erase.at # initialClickPos
    /\ Hits # <<>>

\* s is a subsequence of t: the elements of s, in their order, among those of t
RECURSIVE IsSubsequence(_, _)
IsSubsequence(s, t) ==
    IF s = <<>> THEN TRUE
    ELSE IF t = <<>> THEN FALSE
    ELSE IF Head(s) = Head(t) THEN IsSubsequence(Tail(s), Tail(t))
    ELSE IsSubsequence(s, Tail(t))

\* the strokes of the store with no point within the eraser radius of e
Untouched(actions, e) ==
    LET NoHit(path) == Remainder(path, e) = path
    IN  SelectSeq(actions, NoHit)

\* what becomes of one stroke by its own hit points: nothing if all are hit;
\* for one hit, the stroke without its end point, or the part before the
\* interior point and the part after it if that has at least 2 points; for
\* several hits, the remainder if it has at least 2 points
Transformed(path, e) ==
    LET hit == pointIndicesOf(path, e)
    IN  IF hit = <<>> THEN <<path>>
        ELSE IF Len(hit) = Len(path) THEN <<>>
        ELSE IF Len(hit) > 1 THEN KeptSide(Remainder(path, e))
        ELSE IF hit[1] \in {1, Len(path)} THEN <<Remainder(path, e)>>
        ELSE <<SubSeq(path, 1, hit[1] - 1)>> \o KeptSide(SubSeq(path, hit[1] + 1, Len(path)))

RECURSIVE TransformedAll(_, _)
TransformedAll(actions, e) ==
    IF actions = <<>> THEN <<>>
    ELSE Transformed(Head(actions), e) \o TransformedAll(Tail(actions), e)

\* C23: after an eraser application the strokes that had no point within the
\* radius are in the store unchanged and in their relative order, every
\* stroke of the store is a subsequence of a stroke that was there before,
\* and the store holds exactly what each stroke becomes by its own hit
\* points, however many strokes were hit
C23_EraserOnlyRemovesPoints ==
    erase.applied =>
        /\ IsSubsequence(Untouched(erase.before, erase.at), drawingActions)
        /\ \A i \in 1..Len(drawingActions) :
               \E j \in 1..Len(erase.before) :
                   IsSubsequence(drawingActions[i], erase.before[j])
        /\ SameStrokes(drawingActions, TransformedAll(erase.before, erase.at))

\* the eraser was applied with several strokes under it, the first of them
\* removed whole and a later one left with some of its points
C23_SeveralStrokesHit ==
    /\ erase.applied
    /\ Len(Hits) >= 2
    /\ Len(Hits[1].pointIndices) = Len(erase.before[Hits[1].actionIndex])
    /\ drawingActions # <<>>

\* a key event received while Typing
KeyWhileTyping == isTyping /\ \E key \in Keys : KeyDown(key)

\* a Typing session begins: Typing starts, or the active label changes
SessionBegins == isTyping' /\ (~isTyping \/ activeTextId' # activeTextId)

\* C24: every key event received while Typing restarts the countdown, so that
\* the timeout is due 3000ms after that key event and no sooner, unless the
\* key ended Typing; and when a Typing session begins the countdown is armed
\* anew, so that no timeout armed during an earlier session is left to
\* finalize this one
C24_KeyRestartsCountdown ==
    [][/\ KeyWhileTyping => (~isTyping' \/ inactivityTimer' = now)
       /\ SessionBegins => inactivityTimer' = now]_vars

\* Enter is pressed while Typing on a label of the Text Store
EnterWhileTyping == isTyping /\ ActiveIndex # 0 /\ KeyDown("Enter")

\* C25: Enter pressed while Typing on label L leaves the Text Store as it was
\* (L included, content and position unchanged) with exactly one label
\* appended, empty and at (L.x, L.y + 24); the surface stays Typing and the
\* appended label is the active one
C25_EnterAddsLabelBelow ==
    [][EnterWhileTyping =>
          LET L == textElements[ActiveIndex]
              new == textElements'[Len(textElements')]
          IN  /\ Len(textElements') = Len(textElements) + 1
              /\ SubSeq(textElements', 1, Len(textElements)) = textElements
              /\ new.content = <<>>
              /\ new.x = L.x
              /\ new.y = L.y + LineOffset
              /\ isTyping'
              /\ ActiveIndex' = Len(textElements')]_vars

\* the canvas shows the text of every label of the Text Store, each as often
\* as the store holds it, and nothing else
RendersTextStore ==
    /\ Len(canvas.texts) = Len(textElements)
    /\ \A i \in 1..Len(textElements) :
           Occurrences(canvas.texts, fillText(textElements[i]))
               = Cardinality({j \in 1..Len(textElements) :
                                 fillText(textElements[j]) = fillText(textElements[i])})

\* a caret on the canvas stands at the end of the active label
CaretAtActiveLabel ==
    canvas.caret # NoPoint =>
        /\ ActiveIndex # 0
        /\ canvas.caret = Pt(textElements[ActiveIndex].x
                                 + measureText(textElements[ActiveIndex].content),
                             textElements[ActiveIndex].y)

\* C26: after every redraw by the blink interval while Typing the canvas
\* shows the current Text Store, and a caret it shows stands at the label
\* that is active at that moment
C26_BlinkDrawsActiveCaret ==
    [][(isTyping /\ BlinkInterval) => (RendersTextStore' /\ CaretAtActiveLabel')]_vars

=============================================================================
